---- MODULE Spec2Model ----
(***************************************************************************)
(* Product sentiment analysis on Temporal: the workflow                    *)
(* productSentimentWorkflow (store product, scrape reviews, score every    *)
(* review concurrently, aggregate and persist), its four activities, the   *)
(* worker configuration, and the durable-execution rules the workflow runs *)
(* under.                                                                  *)
(*                                                                         *)
(* JavaScript values: a string is a sequence of one-character strings, a   *)
(* number is a record [k, v] with k = "num" and v the value in units of    *)
(* 1/Scale (decimal fixed point; a division rounds to the nearest unit, as *)
(* a floating-point division rounds to the nearest double), or k = "nan".  *)
(***************************************************************************)
EXTENDS Integers, Sequences, FiniteSets, TLC

\* ------------------------------------------------------------- bounds
\* Decimal digits a number of the model keeps after the point.
FracDigits == 2
\* Activity attempts the environment may make fail in one run.
MaxFaults == 3
\* Longest score list handed to calculateAndStoreScore on its own.
MaxLen == 4
\* Largest attempt number the retry policy is asked about on its own.
MaxAttempt == 6
\* Milliseconds the clock of the API process advances.
MaxNow == 2
\* Workflow instances started through the API in one run.
MaxInstances == 3

\* ------------------------------------------------- JavaScript numbers
RECURSIVE Pow(_, _)
Pow(b, e) == IF e <= 0 THEN 1 ELSE b * Pow(b, e - 1)

Scale == Pow(10, FracDigits)

Min(a, b) == IF a <= b THEN a ELSE b

Abs(n) == IF n < 0 THEN -n ELSE n

NaN == [k |-> "nan", v |-> 0]

Num(n) == [k |-> "num", v |-> n * Scale]

\* A number given in tenths (Tenths(75) is 7.5).
Tenths(n) == [k |-> "num", v |-> (n * Scale) \div 10]

IsNaN(x) == x.k = "nan"

\* a + b
JsAdd(a, b) ==
  IF IsNaN(a) \/ IsNaN(b) THEN NaN ELSE [k |-> "num", v |-> a.v + b.v]

\* p / q for q > 0, rounded to the nearest integer (halves away from zero)
RoundDiv(p, q) ==
  IF p >= 0 THEN (2 * p + q) \div (2 * q) ELSE -((2 * (-p) + q) \div (2 * q))

\* a / n for an array length n; 0 / 0 is NaN
JsDivLen(a, n) ==
  IF IsNaN(a) THEN NaN
  ELSE IF n = 0 THEN NaN
  ELSE [k |-> "num", v |-> RoundDiv(a.v, n)]

\* ------------------------------------------------- JavaScript strings
DigitChars == <<"0", "1", "2", "3", "4", "5", "6", "7", "8", "9">>

IsDigit(c) == \E i \in 1..10 : DigitChars[i] = c

DigitVal(c) == (CHOOSE i \in 1..10 : DigitChars[i] = c) - 1

StrWhiteSpace == {" ", "\t", "\n"}

RECURSIVE NatToString(_)
NatToString(n) ==
  IF n < 10 THEN <<DigitChars[n + 1]>>
  ELSE NatToString(n \div 10) \o <<DigitChars[(n % 10) + 1]>>

\* The fraction f / 10^w as its decimal digits, trailing zeros dropped.
RECURSIVE FracToString(_, _)
FracToString(f, w) ==
  IF f = 0 \/ w = 0 THEN <<>>
  ELSE <<DigitChars[(f \div Pow(10, w - 1)) + 1]>>
       \o FracToString(f % Pow(10, w - 1), w - 1)

\* Number.prototype.toString()
NumberToString(x) ==
  IF IsNaN(x) THEN <<"N", "a", "N">>
  ELSE LET a == Abs(x.v)
           f == a % Scale
       IN (IF x.v < 0 THEN <<"-">> ELSE <<>>)
          \o NatToString(a \div Scale)
          \o (IF f = 0 THEN <<>> ELSE <<".">> \o FracToString(f, FracDigits))

RECURSIVE SkipWhiteSpace(_)
SkipWhiteSpace(s) ==
  IF s # <<>> /\ Head(s) \in StrWhiteSpace THEN SkipWhiteSpace(Tail(s)) ELSE s

\* The longest prefix of s made of decimal digits.
RECURSIVE TakeDigits(_)
TakeDigits(s) ==
  IF s # <<>> /\ IsDigit(Head(s)) THEN <<Head(s)>> \o TakeDigits(Tail(s))
  ELSE <<>>

RECURSIVE DigitsValue(_)
DigitsValue(ds) ==
  IF ds = <<>> THEN 0
  ELSE 10 * DigitsValue(SubSeq(ds, 1, Len(ds) - 1)) + DigitVal(ds[Len(ds)])

\* The digits after the point, in units of 1/Scale, rounded on the next digit.
FractionValue(ds) ==
  LET kept == SubSeq(ds, 1, Min(Len(ds), FracDigits))
      up   == Len(ds) > FracDigits /\ DigitVal(ds[FracDigits + 1]) >= 5
  IN DigitsValue(kept) * Pow(10, FracDigits - Len(kept)) + (IF up THEN 1 ELSE 0)

\* parseFloat(string): leading white space, an optional sign, the longest
\* decimal literal that starts the rest; NaN when no digit starts it.
ParseFloat(input) ==
  LET s0   == SkipWhiteSpace(input)
      neg  == s0 # <<>> /\ Head(s0) = "-"
      s1   == IF s0 # <<>> /\ Head(s0) \in {"-", "+"} THEN Tail(s0) ELSE s0
      ip   == TakeDigits(s1)
      s2   == SubSeq(s1, Len(ip) + 1, Len(s1))
      fp   == IF s2 # <<>> /\ Head(s2) = "." THEN TakeDigits(Tail(s2)) ELSE <<>>
      mag  == DigitsValue(ip) * Scale + FractionValue(fp)
  IN IF ip = <<>> /\ fp = <<>> THEN NaN
     ELSE [k |-> "num", v |-> IF neg THEN -mag ELSE mag]

Str_score == <<"s", "c", "o", "r", "e", ":">>

\* ------------------------------------------------------------- inputs
\* Product names a start request carries.
ProductNames == {<<"T", "V">>}

\* Values of Math.random().toString(36).substring(2, 15) twice over.
UUIDs == {<<"a", "7">>, <<"k", "2">>}

\* Texts the scoring backend answers with (response.data.response).
OllamaResponses == {<<"8">>, <<"1", "1">>, <<"n", "o", "t", " ", "a", " ", "n", "u", "m", "b", "e", "r">>}

\* The worker scripts of the repository.
WorkerScripts == {"src/worker.js", "part_000"}

\* ----------------------------------------------------------- the store
\* redisClient.get(key): null is modelled as the empty sequence of a missing key
RedisHas(db, key) == key \in DOMAIN db

\* APPEND in the place of SET: the value is added to the one already there.
RedisSet_append(db, key, value) ==
  (key :> (IF key \in DOMAIN db THEN db[key] \o value ELSE value)) @@ db

\* redisClient.set(key, value)
RedisSet(db, key, value) == (key :> value) @@ db

\* ---------------------------------------------------------- activities
numberOfReviews == 5

\* scrapeReviews(productName): numberOfReviews mock reviews, newest first. The
\* id, rating, date, author and text of a review are random; no step of the
\* workflow reads them, so a review is modelled by its place in the list.
scrapeReviews(productName) == [i \in 1..numberOfReviews |-> [review |-> i]]

\* analyzeSentiment(review): the backend's reply is an error (the post throws,
\* the catch rethrows) or a text, whose parseFloat is returned as it is.
analyzeSentiment(review, reply) ==
  IF reply.ok
  THEN [ok |-> TRUE, value |-> ParseFloat(reply.response)]
  ELSE [ok |-> FALSE, value |-> reply.error]

\* sentimentScores.reduce((a, b) => a + b, 0)
RECURSIVE Reduce(_)
Reduce(scores) ==
  IF scores = <<>> THEN Num(0)
  ELSE JsAdd(Reduce(SubSeq(scores, 1, Len(scores) - 1)), scores[Len(scores)])

ScoreKey(productUUID) == Str_score \o productUUID

\* The sum divided by the number of reviews scraped, not by the list's length.
calculateAndStoreScore_fixedLength(productUUID, sentimentScores) ==
  LET averageScore == JsDivLen(Reduce(sentimentScores), numberOfReviews)
  IN [key   |-> ScoreKey(productUUID),
      value |-> NumberToString(averageScore),
      ret   |-> [productUUID  |-> productUUID,
                 averageScore |-> averageScore,
                 totalReviews |-> Len(sentimentScores)]]

\* calculateAndStoreScore(productUUID, sentimentScores): the write to the store
\* and the returned record.
calculateAndStoreScore(productUUID, sentimentScores) ==
  LET averageScore == JsDivLen(Reduce(sentimentScores), Len(sentimentScores))
  IN [key   |-> ScoreKey(productUUID),
      value |-> NumberToString(averageScore),
      ret   |-> [productUUID  |-> productUUID,
                 averageScore |-> averageScore,
                 totalReviews |-> Len(sentimentScores)]]

\* The product stored under a key of its own name space, product:{uuid}.
storeProductInDB_prefixedKey(productName, productUUID) ==
  [key |-> <<"p", "r", "o", "d", "u", "c", "t", ":">> \o productUUID,
   value |-> productName, ret |-> productUUID]

\* storeProductInDB(productName) with the random identifier drawn.
storeProductInDB(productName, productUUID) ==
  [key |-> productUUID, value |-> productName, ret |-> productUUID]

\* ------------------------------------------------------- configuration
\* process.env: a variable that is not set is the empty string here.
Unset == <<>>

EnvNames == {"RETRY_INITIAL_INTERVAL", "RETRY_MAXIMUM_INTERVAL",
             "RETRY_BACKOFF_COEFFICIENT", "RETRY_MAXIMUM_ATTEMPTS",
             "MAX_CONCURRENT_ACTIVITIES", "MAX_CONCURRENT_WORKFLOWS",
             "STICKY_QUEUE_SCHEDULE_TO_START_TIMEOUT"}

NoEnv == [n \in EnvNames |-> Unset]

\* A duration string ('1s', '1m') in seconds.
DurationSeconds(s) ==
  LET ds == TakeDigits(s)
      u  == SubSeq(s, Len(ds) + 1, Len(s))
  IN DigitsValue(ds) * (IF u = <<"m">> THEN 60 ELSE 1)

\* parseInt(value, 10) || dflt
ParseIntOr(value, dflt) ==
  LET n == ParseFloat(TakeDigits(SkipWhiteSpace(value)))
  IN IF IsNaN(n) \/ n.v = 0 THEN dflt ELSE n.v \div Scale

\* parseFloat(value) || dflt, for the whole numbers the model draws
ParseFloatOr(value, dflt) ==
  LET n == ParseFloat(value)
  IN IF IsNaN(n) \/ n.v = 0 THEN dflt ELSE n.v \div Scale

\* value || dflt
StringOr(value, dflt) == IF value = <<>> THEN dflt ELSE value

\* A retry policy with no field set (0 stands for "not set").
NoRetryOptions ==
  [initialInterval |-> 0, maximumInterval |-> 0,
   backoffCoefficient |-> 0, maximumAttempts |-> 0]

\* Worker.create({... defaultActivityRetryOptions ...}) of the configured worker
defaultActivityRetryOptions(e) ==
  [initialInterval    |-> DurationSeconds(StringOr(e["RETRY_INITIAL_INTERVAL"], <<"1", "s">>)),
   maximumInterval    |-> DurationSeconds(StringOr(e["RETRY_MAXIMUM_INTERVAL"], <<"1", "m">>)),
   backoffCoefficient |-> ParseFloatOr(e["RETRY_BACKOFF_COEFFICIENT"], 2),
   maximumAttempts    |-> ParseIntOr(e["RETRY_MAXIMUM_ATTEMPTS"], 3)]

\* The options each worker script hands to Worker.create: src/worker.js gives
\* the workflows, the activities, the task queue and the namespace, and no
\* retry options.
\* The two slot counts taken one for the other.
WorkerOptions_swapped(script, e) ==
  IF script = "part_000"
  THEN [maxConcurrentActivityTaskExecutions |->
          ParseIntOr(e["MAX_CONCURRENT_WORKFLOWS"], 50),
        maxConcurrentWorkflowTaskExecutions |->
          ParseIntOr(e["MAX_CONCURRENT_ACTIVITIES"], 10),
        defaultActivityRetryOptions |-> defaultActivityRetryOptions(e)]
  ELSE [maxConcurrentActivityTaskExecutions |-> 0,
        maxConcurrentWorkflowTaskExecutions |-> 0,
        defaultActivityRetryOptions |-> NoRetryOptions]

WorkerOptions(script, e) ==
  IF script = "part_000"
  THEN [maxConcurrentActivityTaskExecutions |->
          ParseIntOr(e["MAX_CONCURRENT_ACTIVITIES"], 10),
        maxConcurrentWorkflowTaskExecutions |->
          ParseIntOr(e["MAX_CONCURRENT_WORKFLOWS"], 50),
        defaultActivityRetryOptions |-> defaultActivityRetryOptions(e)]
  ELSE [maxConcurrentActivityTaskExecutions |-> 0,
        maxConcurrentWorkflowTaskExecutions |-> 0,
        defaultActivityRetryOptions |-> NoRetryOptions]

\* The default of defaultHeartbeatTimeout taken for the sticky queue's.
stickyQueueScheduleToStartTimeout_heartbeatDefault(e) ==
  DurationSeconds(StringOr(e["STICKY_QUEUE_SCHEDULE_TO_START_TIMEOUT"], <<"3", "0", "s">>))

\* stickyQueueScheduleToStartTimeout:
\*   process.env.STICKY_QUEUE_SCHEDULE_TO_START_TIMEOUT || '1m', in seconds
stickyQueueScheduleToStartTimeout(e) ==
  DurationSeconds(StringOr(e["STICKY_QUEUE_SCHEDULE_TO_START_TIMEOUT"], <<"1", "m">>))

\* proxyActivities({startToCloseTimeout: '10 minutes', activities: ...}): the
\* retry block is commented out.
ActivityOptions ==
  [startToCloseTimeout |-> 10 * 60, retry |-> NoRetryOptions]

\* ------------------------------------------------------- retry policy
\* The policy an activity runs under: its own when it declares one, else the
\* worker's default.
RetryPolicy(script, e) ==
  IF ActivityOptions.retry # NoRetryOptions THEN ActivityOptions.retry
  ELSE WorkerOptions(script, e).defaultActivityRetryOptions

\* The exponent taken from the attempt that failed, not from the one before.
BackoffDelay_exponent(attempt, policy) ==
  Min(policy.initialInterval * Pow(policy.backoffCoefficient, attempt),
      policy.maximumInterval)

\* min(initialInterval * backoffCoefficient^(attempt-1), maximumInterval)
BackoffDelay(attempt, policy) ==
  Min(policy.initialInterval * Pow(policy.backoffCoefficient, attempt - 1),
      policy.maximumInterval)

\* One attempt too many: gives up only past maximumAttempts.
nextAction_offByOne(attempt, policy) ==
  IF policy.maximumAttempts > 0 /\ attempt > policy.maximumAttempts
  THEN [action |-> "GiveUp", delay |-> 0]
  ELSE [action |-> "Retry", delay |-> BackoffDelay(attempt, policy)]

\* nextAction(attempt, error, policy): every error the activities raise is a
\* plain thrown Error or a timeout of the attempt, both retried.
nextAction(attempt, policy) ==
  IF policy.maximumAttempts > 0 /\ attempt >= policy.maximumAttempts
  THEN [action |-> "GiveUp", delay |-> 0]
  ELSE [action |-> "Retry", delay |-> BackoffDelay(attempt, policy)]

\* ------------------------------------------------ activity invocations
NoInvocation == [st |-> "none", attempt |-> 0, delay |-> 0, args |-> <<>>, val |-> <<>>]

Scheduled(args) == [st |-> "open", attempt |-> 1, delay |-> 0, args |-> args, val |-> <<>>]

Settled(inv) == inv.st \in {"completed", "failed"}

\* An activity task delivered once more after its invocation was settled is
\* run and reported like any other.
AttemptOpen_delivered(inv) == inv.st # "none"

\* An attempt is run for an invocation that is scheduled and has no outcome
\* recorded yet.
AttemptOpen(inv) == inv.st = "open"

\* The outcome of one attempt recorded against its invocation. A failed
\* attempt of a running workflow is retried or given up on by the policy; a
\* closed workflow's attempt is not retried. A completed invocation keeps its
\* value and no attempt count.
RecordOutcome(inv, outcome, policy, running) ==
  IF outcome.ok
  THEN [inv EXCEPT !.st = "completed", !.val = outcome.value,
                        !.attempt = 0, !.delay = 0]
  ELSE IF running /\ nextAction(inv.attempt, policy).action = "Retry"
       THEN [inv EXCEPT !.attempt = @ + 1,
                        !.delay = nextAction(inv.attempt, policy).delay]
       ELSE [inv EXCEPT !.st = "failed", !.val = outcome.value]

\* ------------------------------------------------------------- state
VARIABLES
  worker,           \* the worker script that runs
  backend,          \* the texts the scoring backend answers with in this run
  env,              \* process.env of the worker
  status,           \* the workflow instance: None, Running, Completed, Failed, Cancelled
  input,            \* the productName the instance was started with
  wfTask,           \* a workflow task of the instance waits for a worker
  wfPc,             \* where the workflow function stands in the worker's memory
  cancelRequested,  \* a cancel request is recorded in the history
  store,            \* the storeProductInDB invocation
  scrape,           \* the scrapeReviews invocation
  analyze,          \* the analyzeSentiment invocations, one per review
  calc,             \* the calculateAndStoreScore invocation
  schedLog,         \* the activities scheduled, in the order of the history
  result,           \* the result or the failure the instance closed with
  redis,            \* the store: key -> value
  faults,           \* attempts the environment has made fail
  inv,              \* one activity invocation, on its own
  scoreCall,        \* a call of calculateAndStoreScore, on its own
  scoreRet,         \* what that call returned
  invReply,         \* what the scoring backend answered the last attempt of inv
  now,              \* Date.now() of the API process, in milliseconds
  temporalClient,   \* the API's Temporal client is connected
  instances,        \* the workflow instances the engine has started, in order
  req,              \* the HTTP request answered last
  res,              \* the HTTP response to it
  activityTasks,    \* activity tasks the worker is executing
  workflowTasks,    \* workflow tasks the worker is executing
  sticky,           \* the routing of the instance's workflow tasks to workers
  redisReady        \* the API's connection to the store is established

\* The state of the HTTP API and of the worker's task slots.
apiVars ==
  <<invReply, now, temporalClient, instances, req, res, activityTasks, workflowTasks,
    sticky, redisReady>>

vars == <<worker, backend, env, status, input, wfTask, wfPc, cancelRequested, store, scrape,
          analyze, calc, schedLog, result, redis, faults, inv, scoreCall, scoreRet, apiVars>>

NoRequest == [method |-> "none"]

NoResponse == [status |-> 0]

\* No worker holds the instance and no workflow task waits.
NoSticky == [holder |-> "none", lost |-> "none", pending |-> FALSE, waited |-> 0,
             free |-> {}, by |-> "none", replay |-> FALSE]

\* No request was made, no instance started, no task taken.
ApiIdle ==
  /\ invReply = <<>>
  /\ now = 0
  /\ temporalClient = TRUE
  /\ instances = <<>>
  /\ req = NoRequest
  /\ res = NoResponse
  /\ activityTasks = 0
  /\ workflowTasks = 0
  /\ sticky = NoSticky
  /\ redisReady = TRUE

Reviews == 1..numberOfReviews

Closed == {"Completed", "Failed", "TimedOut", "Cancelled"}

\* ------------------------------------------------------- the workflow
\* Promise.race in the place of Promise.all: settled by the first fulfilled
\* promise, a promise still pending standing as NaN.
PromiseAll_race(promises) ==
  IF \E i \in DOMAIN promises : promises[i].st = "completed"
  THEN [state |-> "fulfilled",
        value |-> [i \in DOMAIN promises |->
                     IF promises[i].st = "completed" THEN promises[i].val ELSE NaN]]
  ELSE [state |-> "pending", value |-> <<>>]

\* Promise.allSettled in the place of Promise.all: a rejected promise does not
\* reject the whole, and stands as NaN.
PromiseAll_allSettled(promises) ==
  IF \A i \in DOMAIN promises : Settled(promises[i])
  THEN [state |-> "fulfilled",
        value |-> [i \in DOMAIN promises |->
                     IF promises[i].st = "completed" THEN promises[i].val ELSE NaN]]
  ELSE [state |-> "pending", value |-> <<>>]

\* The values gathered in the reverse of the promises' order.
PromiseAll_reversed(promises) ==
  IF \E i \in DOMAIN promises : promises[i].st = "failed"
  THEN [state |-> "rejected", value |-> "Error"]
  ELSE IF \A i \in DOMAIN promises : promises[i].st = "completed"
       THEN [state |-> "fulfilled",
             value |-> [i \in DOMAIN promises |->
                          promises[Len(promises) + 1 - i].val]]
       ELSE [state |-> "pending", value |-> <<>>]

\* Promise.all(promises): rejected as soon as one promise is rejected, fulfilled
\* with the values in the order of the promises once all are fulfilled.
PromiseAll(promises) ==
  IF \E i \in DOMAIN promises : promises[i].st = "failed"
  THEN [state |-> "rejected",
        value |-> promises[CHOOSE i \in DOMAIN promises :
                             /\ promises[i].st = "failed"
                             /\ \A j \in DOMAIN promises :
                                  promises[j].st = "failed" => i <= j].val]
  ELSE IF \A i \in DOMAIN promises : promises[i].st = "completed"
       THEN [state |-> "fulfilled",
             value |-> [i \in DOMAIN promises |-> promises[i].val]]
       ELSE [state |-> "pending", value |-> <<>>]

Await(at) == [cmd |-> "await", at |-> at]

\* The arguments stamped with where the workflow function stands in the
\* worker's memory, which no history records.
Schedule_stamped(activity, args) ==
  [cmd |-> "schedule", activity |-> activity, args |-> Append(args, wfPc)]

\* The error replaced by one of the workflow's own.
Throw_generic(error) == [cmd |-> "throw", error |-> "WorkflowFailed"]

\* catch (error) { throw error; }
Throw(error) == [cmd |-> "throw", error |-> error]

Schedule(activity, args) == [cmd |-> "schedule", activity |-> activity, args |-> args]

\* The reviews scraped before the product is stored.
productSentimentWorkflow_scrapeFirst(productName, h) ==
  IF h.cancelRequested THEN [cmd |-> "cancelled"]
  ELSE IF h.scrape.st = "none" THEN Schedule("scrapeReviews", <<productName>>)
  ELSE IF h.scrape.st = "open" THEN Await("scrapeReviews")
  ELSE IF h.scrape.st = "failed" THEN Throw(h.scrape.val)
  ELSE LET reviews == h.scrape.val IN
  IF h.store.st = "none" THEN Schedule("storeProductInDB", <<productName>>)
  ELSE IF h.store.st = "open" THEN Await("storeProductInDB")
  ELSE IF h.store.st = "failed" THEN Throw(h.store.val)
  ELSE LET productUUID == h.store.val IN
  IF \A i \in DOMAIN reviews : h.analyze[i].st = "none"
  THEN Schedule("analyzeSentiment", reviews)
  ELSE LET all == PromiseAll([i \in DOMAIN reviews |-> h.analyze[i]]) IN
  IF all.state = "pending" THEN Await("analyzeSentiment")
  ELSE IF all.state = "rejected" THEN Throw(all.value)
  ELSE LET sentimentResults == all.value IN
  IF h.calc.st = "none"
  THEN Schedule("calculateAndStoreScore", <<productUUID, sentimentResults>>)
  ELSE IF h.calc.st = "open" THEN Await("calculateAndStoreScore")
  ELSE IF h.calc.st = "failed" THEN Throw(h.calc.val)
  ELSE [cmd |-> "return", value |-> h.calc.val]

\* The activities called where a cancel request does not reach them.
productSentimentWorkflow_nonCancellable(productName, h) ==
  IF h.store.st = "none" THEN Schedule("storeProductInDB", <<productName>>)
  ELSE IF h.store.st = "open" THEN Await("storeProductInDB")
  ELSE IF h.store.st = "failed" THEN Throw(h.store.val)
  ELSE LET productUUID == h.store.val IN
  IF h.scrape.st = "none" THEN Schedule("scrapeReviews", <<productName>>)
  ELSE IF h.scrape.st = "open" THEN Await("scrapeReviews")
  ELSE IF h.scrape.st = "failed" THEN Throw(h.scrape.val)
  ELSE LET reviews == h.scrape.val IN
  IF \A i \in DOMAIN reviews : h.analyze[i].st = "none"
  THEN Schedule("analyzeSentiment", reviews)
  ELSE LET all == PromiseAll([i \in DOMAIN reviews |-> h.analyze[i]]) IN
  IF all.state = "pending" THEN Await("analyzeSentiment")
  ELSE IF all.state = "rejected" THEN Throw(all.value)
  ELSE LET sentimentResults == all.value IN
  IF h.calc.st = "none"
  THEN Schedule("calculateAndStoreScore", <<productUUID, sentimentResults>>)
  ELSE IF h.calc.st = "open" THEN Await("calculateAndStoreScore")
  ELSE IF h.calc.st = "failed" THEN Throw(h.calc.val)
  ELSE [cmd |-> "return", value |-> h.calc.val]

\* productSentimentWorkflow(productName) run against the recorded outcomes h of
\* its activities: the command it issues where it stops. A cancel request
\* rejects the activity promise the function awaits, and the catch rethrows.
productSentimentWorkflow(productName, h) ==
  IF h.cancelRequested THEN [cmd |-> "cancelled"]
  ELSE IF h.store.st = "none" THEN Schedule("storeProductInDB", <<productName>>)
  ELSE IF h.store.st = "open" THEN Await("storeProductInDB")
  ELSE IF h.store.st = "failed" THEN Throw(h.store.val)
  ELSE LET productUUID == h.store.val IN
  IF h.scrape.st = "none" THEN Schedule("scrapeReviews", <<productName>>)
  ELSE IF h.scrape.st = "open" THEN Await("scrapeReviews")
  ELSE IF h.scrape.st = "failed" THEN Throw(h.scrape.val)
  ELSE LET reviews == h.scrape.val IN
  IF \A i \in DOMAIN reviews : h.analyze[i].st = "none"
  THEN Schedule("analyzeSentiment", reviews)
  ELSE LET all == PromiseAll([i \in DOMAIN reviews |-> h.analyze[i]]) IN
  IF all.state = "pending" THEN Await("analyzeSentiment")
  ELSE IF all.state = "rejected" THEN Throw(all.value)
  ELSE LET sentimentResults == all.value IN
  IF h.calc.st = "none"
  THEN Schedule("calculateAndStoreScore", <<productUUID, sentimentResults>>)
  ELSE IF h.calc.st = "open" THEN Await("calculateAndStoreScore")
  ELSE IF h.calc.st = "failed" THEN Throw(h.calc.val)
  ELSE [cmd |-> "return", value |-> h.calc.val]

\* The history kept in the worker's memory only: a worker that lost it sees
\* an instance that has done nothing yet.
History_inMemory ==
  IF wfPc = "evicted"
  THEN [cancelRequested |-> cancelRequested, store |-> NoInvocation,
        scrape |-> NoInvocation,
        analyze |-> [i \in DOMAIN analyze |-> NoInvocation], calc |-> NoInvocation]
  ELSE [cancelRequested |-> cancelRequested, store |-> store, scrape |-> scrape,
        analyze |-> analyze, calc |-> calc]

\* The outcomes of the activities recorded for the instance, which the workflow
\* function is run against.
History ==
  [cancelRequested |-> cancelRequested, store |-> store, scrape |-> scrape,
   analyze |-> analyze, calc |-> calc]

Policy == RetryPolicy(worker, env)

\* A closed instance takes no workflow task, no retry and no cancel request.
InstanceOpen_always == status # "None"

\* The instance is open: the engine drives it forward.
InstanceOpen == status = "Running"

\* ------------------------------------------------------------ actions
\* temporalClient.workflow.start('productSentimentWorkflow', {args: [productName]})
StartWorkflow ==
  /\ status = "None"
  /\ \E productName \in ProductNames : input' = productName
  /\ status' = "Running"
  /\ wfTask' = TRUE
  /\ UNCHANGED <<worker, backend, env, wfPc, cancelRequested, store, scrape, analyze, calc,
                 schedLog, result, redis, faults, inv, scoreCall, scoreRet, apiVars>>

\* A worker runs the workflow function against the history and carries out
\* the command it issues: schedule the next activities, or close the instance.
WorkflowTask ==
  /\ InstanceOpen
  /\ wfTask
  /\ LET c == productSentimentWorkflow(input, History)
         sched(a) == c.cmd = "schedule" /\ c.activity = a
     IN /\ store' = IF sched("storeProductInDB") THEN Scheduled(c.args) ELSE store
        /\ scrape' = IF sched("scrapeReviews") THEN Scheduled(c.args) ELSE scrape
        /\ analyze' = IF sched("analyzeSentiment")
                      THEN [i \in DOMAIN analyze |->
                              IF i \in DOMAIN c.args THEN Scheduled(<<c.args[i]>>)
                              ELSE analyze[i]]
                      ELSE analyze
        /\ calc' = IF sched("calculateAndStoreScore") THEN Scheduled(c.args) ELSE calc
        /\ schedLog' = IF sched("analyzeSentiment")
                       THEN schedLog \o [i \in DOMAIN c.args |-> <<"analyzeSentiment", i>>]
                       ELSE IF c.cmd = "schedule"
                            THEN Append(schedLog, <<c.activity, 0>>)
                            ELSE schedLog
        /\ status' = CASE c.cmd = "return" -> "Completed"
                       [] c.cmd = "throw" -> "Failed"
                       [] c.cmd = "cancelled" -> "Cancelled"
                       [] OTHER -> status
        /\ result' = CASE c.cmd = "return" -> c.value
                       [] c.cmd = "throw" -> c.error
                       [] c.cmd = "cancelled" -> "CancelledFailure"
                       [] OTHER -> result
        /\ wfPc' = CASE c.cmd = "schedule" -> c.activity
                     [] c.cmd = "await" -> c.at
                     [] OTHER -> "end"
  /\ wfTask' = FALSE
  /\ UNCHANGED <<worker, backend, env, input, cancelRequested, redis, faults, inv,
                 scoreCall, scoreRet, apiVars>>

\* What an attempt that does not return its value ends with.
FaultError(fault) == IF fault = "throws" THEN "Error" ELSE "Timeout"

\* One attempt of the invocation `before` ended with `outcome`; `fault` says
\* whether the environment made it fail.
AttemptEnds(before, after, fault) ==
  /\ fault # "none" => faults < MaxFaults
  /\ faults' = IF fault = "none" THEN faults ELSE faults + 1
  /\ wfTask' = (wfTask \/ (InstanceOpen /\ Settled(after)))

\* A worker runs one attempt of storeProductInDB: the write throws, or it is
\* made and the attempt returns, or it is made and the attempt never reports
\* (the worker dies, the attempt times out).
StoreAttempt ==
  /\ AttemptOpen(store)
  /\ \E productUUID \in UUIDs, fault \in {"none", "throws", "lost"} :
       LET call    == storeProductInDB(store.args[1], productUUID)
           outcome == IF fault = "none" THEN [ok |-> TRUE, value |-> call.ret]
                      ELSE [ok |-> FALSE, value |-> FaultError(fault)]
           after   == RecordOutcome(store, outcome, Policy, InstanceOpen)
       IN /\ AttemptEnds(store, after, fault)
          /\ redis' = IF fault = "throws" THEN redis
                      ELSE RedisSet(redis, call.key, call.value)
          /\ store' = after
  /\ UNCHANGED <<worker, backend, env, status, input, wfPc, cancelRequested, scrape, analyze,
                 calc, schedLog, result, inv, scoreCall, scoreRet, apiVars>>

\* One attempt of scrapeReviews: it returns the reviews or never reports.
ScrapeAttempt ==
  /\ AttemptOpen(scrape)
  /\ \E fault \in {"none", "lost"} :
       LET outcome == IF fault = "none"
                      THEN [ok |-> TRUE, value |-> scrapeReviews(scrape.args[1])]
                      ELSE [ok |-> FALSE, value |-> FaultError(fault)]
           after   == RecordOutcome(scrape, outcome, Policy, InstanceOpen)
       IN /\ AttemptEnds(scrape, after, fault)
          /\ scrape' = after
  /\ UNCHANGED <<worker, backend, env, status, input, wfPc, cancelRequested, store, analyze,
                 calc, schedLog, result, redis, inv, scoreCall, scoreRet, apiVars>>

\* What the post to the scoring backend ends with: a text, or an error.
Replies ==
  {[ok |-> TRUE, response |-> r, error |-> ""] : r \in backend}
  \cup {[ok |-> FALSE, response |-> <<>>, error |-> e] : e \in {"Error", "Timeout"}}

\* One attempt of analyzeSentiment for review i.
AnalyzeAttempt(i) ==
  /\ AttemptOpen(analyze[i])
  /\ \E reply \in Replies :
       LET outcome == analyzeSentiment(analyze[i].args[1], reply)
           after   == RecordOutcome(analyze[i], outcome, Policy, InstanceOpen)
       IN /\ AttemptEnds(analyze[i], after, IF reply.ok THEN "none" ELSE "throws")
          /\ analyze' = [analyze EXCEPT ![i] = after]
  /\ UNCHANGED <<worker, backend, env, status, input, wfPc, cancelRequested, store, scrape,
                 calc, schedLog, result, redis, inv, scoreCall, scoreRet, apiVars>>

\* One attempt of calculateAndStoreScore.
CalcAttempt ==
  /\ AttemptOpen(calc)
  /\ \E fault \in {"none", "throws", "lost"} :
       LET call    == calculateAndStoreScore(calc.args[1], calc.args[2])
           outcome == IF fault = "none" THEN [ok |-> TRUE, value |-> call.ret]
                      ELSE [ok |-> FALSE, value |-> FaultError(fault)]
           after   == RecordOutcome(calc, outcome, Policy, InstanceOpen)
       IN /\ AttemptEnds(calc, after, fault)
          /\ redis' = IF fault = "throws" THEN redis
                      ELSE RedisSet(redis, call.key, call.value)
          /\ calc' = after
  /\ UNCHANGED <<worker, backend, env, status, input, wfPc, cancelRequested, store, scrape,
                 analyze, schedLog, result, inv, scoreCall, scoreRet, apiVars>>

\* ------------------------------------------------------ specification
Init ==
  /\ worker \in WorkerScripts
  /\ backend = OllamaResponses
  /\ env = NoEnv
  /\ status = "None"
  /\ input = <<>>
  /\ wfTask = FALSE
  /\ wfPc = "none"
  /\ cancelRequested = FALSE
  /\ store = NoInvocation
  /\ scrape = NoInvocation
  /\ analyze = [i \in Reviews |-> NoInvocation]
  /\ calc = NoInvocation
  /\ schedLog = <<>>
  /\ result = <<>>
  /\ redis = <<>>
  /\ faults = 0
  /\ inv = NoInvocation
  /\ scoreCall = <<>>
  /\ scoreRet = <<>>
  /\ ApiIdle

Next ==
  \/ StartWorkflow
  \/ WorkflowTask
  \/ StoreAttempt
  \/ ScrapeAttempt
  \/ \E i \in Reviews : AnalyzeAttempt(i)
  \/ CalcAttempt

Spec == Init /\ [][Next]_vars

\* ------------------------------------------- operators and worker loss
\* An operator asks the engine to cancel the instance. The request is
\* recorded for a running instance and refused for a closed one.
RequestCancel ==
  /\ status # "None"
  /\ ~cancelRequested
  /\ cancelRequested' = InstanceOpen
  /\ wfTask' = (wfTask \/ InstanceOpen)
  /\ UNCHANGED <<worker, backend, env, status, input, wfPc, store, scrape, analyze,
                 calc, schedLog, result, redis, faults, inv, scoreCall, scoreRet, apiVars>>

\* The worker that holds the instance in memory dies: the next workflow task
\* is run by replaying the history.
WorkerCrash ==
  /\ wfPc \notin {"none", "evicted"}
  /\ wfPc' = "evicted"
  /\ UNCHANGED <<worker, backend, env, status, input, wfTask, cancelRequested, store,
                 scrape, analyze, calc, schedLog, result, redis, faults, inv,
                 scoreCall, scoreRet, apiVars>>

OpsInit ==
  /\ worker \in WorkerScripts
  /\ backend = {<<"8">>}
  /\ env = NoEnv
  /\ status = "None"
  /\ input = <<>>
  /\ wfTask = FALSE
  /\ wfPc = "none"
  /\ cancelRequested = FALSE
  /\ store = NoInvocation
  /\ scrape = NoInvocation
  /\ analyze = [i \in Reviews |-> NoInvocation]
  /\ calc = NoInvocation
  /\ schedLog = <<>>
  /\ result = <<>>
  /\ redis = <<>>
  /\ faults = 0
  /\ inv = NoInvocation
  /\ scoreCall = <<>>
  /\ scoreRet = <<>>
  /\ ApiIdle

OpsNext ==
  \/ StartWorkflow
  \/ WorkflowTask
  \/ StoreAttempt
  \/ ScrapeAttempt
  \/ \E i \in Reviews : AnalyzeAttempt(i)
  \/ CalcAttempt
  \/ RequestCancel
  \/ WorkerCrash

SpecOps == OpsInit /\ [][OpsNext]_vars

\* ------------------------------------- one invocation under its policy
\* Environments the configured worker is started in.
RetryEnvs ==
  {[n \in EnvNames |->
      CASE n = "RETRY_INITIAL_INTERVAL" -> i
        [] n = "RETRY_MAXIMUM_INTERVAL" -> m
        [] n = "RETRY_BACKOFF_COEFFICIENT" -> c
        [] n = "RETRY_MAXIMUM_ATTEMPTS" -> a
        [] OTHER -> Unset] :
     i \in {Unset, <<"2", "s">>},
     m \in {Unset, <<"4", "s">>},
     c \in {Unset, <<"1">>, <<"3">>},
     a \in {Unset, <<"0">>, <<"1">>, <<"2">>, <<"5">>}}

InvAttemptFails ==
  /\ inv.st = "open"
  /\ inv.attempt < MaxAttempt
  /\ inv' = RecordOutcome(inv, [ok |-> FALSE, value |-> "Error"], Policy, TRUE)
  /\ UNCHANGED <<worker, backend, env, status, input, wfTask, wfPc, cancelRequested,
                 store, scrape, analyze, calc, schedLog, result, redis, faults,
                 scoreCall, scoreRet, apiVars>>

InvAttemptReturns ==
  /\ inv.st = "open"
  /\ inv' = RecordOutcome(inv, [ok |-> TRUE, value |-> <<>>], Policy, TRUE)
  /\ UNCHANGED <<worker, backend, env, status, input, wfTask, wfPc, cancelRequested,
                 store, scrape, analyze, calc, schedLog, result, redis, faults,
                 scoreCall, scoreRet, apiVars>>

RetryInit ==
  /\ worker \in WorkerScripts
  /\ backend = OllamaResponses
  /\ env \in RetryEnvs
  /\ status = "None"
  /\ input = <<>>
  /\ wfTask = FALSE
  /\ wfPc = "none"
  /\ cancelRequested = FALSE
  /\ store = NoInvocation
  /\ scrape = NoInvocation
  /\ analyze = [i \in Reviews |-> NoInvocation]
  /\ calc = NoInvocation
  /\ schedLog = <<>>
  /\ result = <<>>
  /\ redis = <<>>
  /\ faults = 0
  /\ inv = Scheduled(<<>>)
  /\ scoreCall = <<>>
  /\ scoreRet = <<>>
  /\ ApiIdle

RetryNext == InvAttemptFails \/ InvAttemptReturns

SpecRetry == RetryInit /\ [][RetryNext]_vars

\* ------------------------------------ calculateAndStoreScore on its own
ScoreValues == {Num(0), Num(2), Num(4), Num(6), Num(8), Tenths(75)}

ScoreLists == UNION {[1..n -> ScoreValues] : n \in 0..MaxLen}

ScoreCalled ==
  /\ scoreCall # <<>>
  /\ Len(scoreRet) < 2
  /\ LET call == calculateAndStoreScore(scoreCall.productUUID, scoreCall.sentimentScores)
     IN /\ redis' = RedisSet(redis, call.key, call.value)
        /\ scoreRet' = Append(scoreRet, call.ret)
  /\ UNCHANGED <<worker, backend, env, status, input, wfTask, wfPc, cancelRequested,
                 store, scrape, analyze, calc, schedLog, result, faults, inv, scoreCall, apiVars>>

\* What the store holds before the call: nothing, or the record of another
\* product and an older score.
ScoreStores ==
  {<<>>, (<<"a", "7">> :> <<"T", "V">>) @@ ((Str_score \o <<"k", "2">>) :> <<"6">>)}

ScoreInit ==
  /\ worker = "src/worker.js"
  /\ backend = OllamaResponses
  /\ env = NoEnv
  /\ status = "None"
  /\ input = <<>>
  /\ wfTask = FALSE
  /\ wfPc = "none"
  /\ cancelRequested = FALSE
  /\ store = NoInvocation
  /\ scrape = NoInvocation
  /\ analyze = [i \in Reviews |-> NoInvocation]
  /\ calc = NoInvocation
  /\ schedLog = <<>>
  /\ result = <<>>
  /\ redis \in ScoreStores
  /\ faults = 0
  /\ inv = NoInvocation
  /\ scoreCall \in {[productUUID |-> u, sentimentScores |-> l] :
                      u \in UUIDs, l \in ScoreLists}
  /\ scoreRet = <<>>
  /\ ApiIdle

ScoreNext == ScoreCalled

SpecScore == ScoreInit /\ [][ScoreNext]_vars

\* ------------------------------- one analyzeSentiment invocation alone
\* A worker runs one attempt of analyzeSentiment for the invocation inv; the
\* engine records what the attempt ended with.
AnalyzeInvAttempt ==
  /\ inv.st = "open"
  /\ inv.attempt < MaxAttempt
  /\ \E reply \in Replies :
       /\ inv' = RecordOutcome(inv, analyzeSentiment(inv.args[1], reply), Policy, TRUE)
       /\ invReply' = reply
  /\ UNCHANGED <<worker, backend, env, status, input, wfTask, wfPc, cancelRequested,
                 store, scrape, analyze, calc, schedLog, result, redis, faults,
                 scoreCall, scoreRet, now, temporalClient, instances, req, res,
                 activityTasks, workflowTasks, sticky, redisReady>>

ClassifyInit ==
  /\ worker \in WorkerScripts
  /\ backend = OllamaResponses
  /\ env \in RetryEnvs
  /\ status = "None"
  /\ input = <<>>
  /\ wfTask = FALSE
  /\ wfPc = "none"
  /\ cancelRequested = FALSE
  /\ store = NoInvocation
  /\ scrape = NoInvocation
  /\ analyze = [i \in Reviews |-> NoInvocation]
  /\ calc = NoInvocation
  /\ schedLog = <<>>
  /\ result = <<>>
  /\ redis = <<>>
  /\ faults = 0
  /\ inv = Scheduled(<<[review |-> 1]>>)
  /\ scoreCall = <<>>
  /\ scoreRet = <<>>
  /\ ApiIdle

ClassifyNext == AnalyzeInvAttempt

SpecClassify == ClassifyInit /\ [][ClassifyNext]_vars

\* ------------------------------------------------------- the HTTP API
JsUndefined == [t |-> "undefined", s |-> <<>>]

JsString(s) == [t |-> "string", s |-> s]

\* The empty string and null taken for truthy.
JsNot_undefinedOnly(v) == v.t = "undefined"

JsNull == [t |-> "null", s |-> <<>>]

\* !v for undefined, null and a string: of the strings the empty one is falsy.
JsNot(v) == v.t \in {"undefined", "null"} \/ (v.t = "string" /\ v.s = <<>>)

\* The bodies of POST /analyze-sentiment: {}, {productName: ""}, and two names.
RequestBodies ==
  {[productName |-> JsUndefined], [productName |-> JsString(<<>>)],
   [productName |-> JsString(<<"T", "V">>)], [productName |-> JsString(<<"T">>)]}

Str_sentiment_analysis ==
  <<"s", "e", "n", "t", "i", "m", "e", "n", "t", "-",
    "a", "n", "a", "l", "y", "s", "i", "s", "-">>

\* `sentiment-analysis-${productName}-${Date.now()}`
WorkflowId(productName, dateNow) ==
  Str_sentiment_analysis \o productName \o <<"-">> \o NatToString(dateNow)

IdInUse(insts, workflowId) == \E n \in DOMAIN insts : insts[n].workflowId = workflowId

\* temporalClient.workflow.start('productSentimentWorkflow', {args, taskQueue,
\* workflowId}): throws while temporalClient is not set; the engine starts an
\* instance under the id, and when the id is taken it refuses the start or
\* starts a second instance under it (onTaken).
WorkflowStart(insts, connected, workflowId, args, onTaken) ==
  IF ~connected THEN [ok |-> FALSE, instances |-> insts]
  ELSE IF IdInUse(insts, workflowId) /\ onTaken = "refuse"
       THEN [ok |-> FALSE, instances |-> insts]
       ELSE [ok |-> TRUE,
             instances |-> Append(insts, [workflowId |-> workflowId, args |-> args,
                                          status |-> "Running"])]

\* The handler without its try and catch: a start that throws leaves the
\* request without a response.
PostHandler_uncaught(body, insts, connected, dateNow, onTaken) ==
  LET productName == body.productName
  IN IF JsNot(productName)
     THEN [res |-> [status |-> 400, body |-> [error |-> "Product name is required"]],
           instances |-> insts]
     ELSE LET workflowId == WorkflowId(productName.s, dateNow)
              handle == WorkflowStart(insts, connected, workflowId,
                                      <<productName.s>>, onTaken)
          IN IF handle.ok
             THEN [res |-> [status |-> 200,
                            body |-> [message |-> "Sentiment analysis workflow started",
                                      workflowId |-> workflowId]],
                   instances |-> handle.instances]
             ELSE [res |-> NoResponse, instances |-> insts]

\* router.post('/analyze-sentiment'): the response and the instances after it.
PostHandler(body, insts, connected, dateNow, onTaken) ==
  LET productName == body.productName
  IN IF JsNot(productName)
     THEN [res |-> [status |-> 400, body |-> [error |-> "Product name is required"]],
           instances |-> insts]
     ELSE LET workflowId == WorkflowId(productName.s, dateNow)
              handle == WorkflowStart(insts, connected, workflowId,
                                      <<productName.s>>, onTaken)
          IN IF handle.ok
             THEN [res |-> [status |-> 200,
                            body |-> [message |-> "Sentiment analysis workflow started",
                                      workflowId |-> workflowId]],
                   instances |-> handle.instances]
             ELSE [res |-> [status |-> 500,
                            body |-> [error |-> "Failed to start sentiment analysis"]],
                   instances |-> insts]

\* A client posts to /api/analyze-sentiment and is answered.
PostAnalyzeSentiment ==
  /\ Len(instances) < MaxInstances
  /\ req.method # "GET queued"
  /\ \E body \in RequestBodies, onTaken \in {"refuse", "second"} :
       LET h == PostHandler(body, instances, temporalClient, now, onTaken)
       IN /\ req' = [method |-> "POST", body |-> body, at |-> now]
          /\ res' = h.res
          /\ instances' = h.instances
  /\ UNCHANGED <<worker, backend, env, status, input, wfTask, wfPc, cancelRequested,
                 store, scrape, analyze, calc, schedLog, result, redis, faults, inv,
                 scoreCall, scoreRet, invReply, now, temporalClient,
                 activityTasks, workflowTasks, sticky, redisReady>>

\* initTemporalClient() resolves: the connection is made and the client is set.
initTemporalClient ==
  /\ ~temporalClient
  /\ temporalClient' = TRUE
  /\ UNCHANGED <<worker, backend, env, status, input, wfTask, wfPc, cancelRequested,
                 store, scrape, analyze, calc, schedLog, result, redis, faults, inv,
                 scoreCall, scoreRet, invReply, now, instances, req, res,
                 activityTasks, workflowTasks, sticky, redisReady>>

\* A millisecond passes.
Tick ==
  /\ now < MaxNow
  /\ now' = now + 1
  /\ UNCHANGED <<worker, backend, env, status, input, wfTask, wfPc, cancelRequested,
                 store, scrape, analyze, calc, schedLog, result, redis, faults, inv,
                 scoreCall, scoreRet, invReply, temporalClient, instances, req, res,
                 activityTasks, workflowTasks, sticky, redisReady>>

ApiInit ==
  /\ worker \in WorkerScripts
  /\ backend = OllamaResponses
  /\ env = NoEnv
  /\ status = "None"
  /\ input = <<>>
  /\ wfTask = FALSE
  /\ wfPc = "none"
  /\ cancelRequested = FALSE
  /\ store = NoInvocation
  /\ scrape = NoInvocation
  /\ analyze = [i \in Reviews |-> NoInvocation]
  /\ calc = NoInvocation
  /\ schedLog = <<>>
  /\ result = <<>>
  /\ redis = <<>>
  /\ faults = 0
  /\ inv = NoInvocation
  /\ scoreCall = <<>>
  /\ scoreRet = <<>>
  /\ invReply = <<>>
  /\ now = 0
  /\ temporalClient = FALSE
  /\ instances = <<>>
  /\ req = NoRequest
  /\ res = NoResponse
  /\ activityTasks = 0
  /\ workflowTasks = 0
  /\ sticky = NoSticky
  /\ redisReady = TRUE

ApiNext == PostAnalyzeSentiment \/ initTemporalClient \/ Tick

SpecApi == ApiInit /\ [][ApiNext]_vars

\* ---------------------------------------------- the score lookup (GET)
\* redisClient.get(key): the string stored under the key, or null.
RedisGet(db, key) == IF RedisHas(db, key) THEN JsString(db[key]) ELSE JsNull

\* The test made on the product name in the place of the score.
GetHandler_checksName(productUUID, score, productName) ==
  IF JsNot(productName)
  THEN [status |-> 404, body |-> [error |-> "Sentiment score not found for this product"]]
  ELSE [status |-> 200,
        body |-> [productUUID |-> productUUID, productName |-> productName,
                  sentimentScore |-> ParseFloat(score.s)]]

\* router.get('/sentiment/:productUUID') once both reads are made.
GetHandler(productUUID, score, productName) ==
  IF JsNot(score)
  THEN [status |-> 404, body |-> [error |-> "Sentiment score not found for this product"]]
  ELSE [status |-> 200,
        body |-> [productUUID |-> productUUID, productName |-> productName,
                  sentimentScore |-> ParseFloat(score.s)]]

\* A client asks for the score of productUUID; the handler reads the score.
GetSentimentReadScore ==
  /\ req.method \notin {"GET", "GET queued"}
  /\ redisReady
  /\ \E productUUID \in UUIDs :
       req' = [method |-> "GET", productUUID |-> productUUID,
               score |-> RedisGet(redis, Str_score \o productUUID)]
  /\ UNCHANGED <<worker, backend, env, status, input, wfTask, wfPc, cancelRequested,
                 store, scrape, analyze, calc, schedLog, result, redis, faults, inv,
                 scoreCall, scoreRet, invReply, now, temporalClient, instances, res,
                 activityTasks, workflowTasks, sticky, redisReady>>

\* The handler reads the product name and answers.
GetSentimentRespond ==
  /\ req.method = "GET"
  /\ res' = GetHandler(req.productUUID, req.score, RedisGet(redis, req.productUUID))
  /\ req' = NoRequest
  /\ UNCHANGED <<worker, backend, env, status, input, wfTask, wfPc, cancelRequested,
                 store, scrape, analyze, calc, schedLog, result, redis, faults, inv,
                 scoreCall, scoreRet, invReply, now, temporalClient, instances,
                 activityTasks, workflowTasks, sticky, redisReady>>

GetInit ==
  /\ worker \in WorkerScripts
  /\ backend \in {{r} : r \in OllamaResponses}
  /\ env = NoEnv
  /\ status = "None"
  /\ input = <<>>
  /\ wfTask = FALSE
  /\ wfPc = "none"
  /\ cancelRequested = FALSE
  /\ store = NoInvocation
  /\ scrape = NoInvocation
  /\ analyze = [i \in Reviews |-> NoInvocation]
  /\ calc = NoInvocation
  /\ schedLog = <<>>
  /\ result = <<>>
  /\ redis = <<>>
  /\ faults = 0
  /\ inv = NoInvocation
  /\ scoreCall = <<>>
  /\ scoreRet = <<>>
  /\ ApiIdle

GetNext ==
  \/ StartWorkflow
  \/ WorkflowTask
  \/ StoreAttempt
  \/ ScrapeAttempt
  \/ \E i \in Reviews : AnalyzeAttempt(i)
  \/ CalcAttempt
  \/ GetSentimentReadScore
  \/ GetSentimentRespond

SpecGet == GetInit /\ [][GetNext]_vars

\* -------------------------------------------------- the worker's slots
\* Environments the configured worker is started in, for its slot counts.
SlotEnvs ==
  {[NoEnv EXCEPT !["MAX_CONCURRENT_ACTIVITIES"] = a, !["MAX_CONCURRENT_WORKFLOWS"] = w] :
     a \in {Unset, <<"0">>, <<"1">>, <<"2">>}, w \in {Unset, <<"1">>, <<"3">>}}

\* A slot of the kind is free: fewer tasks are executing than the worker allows.
SlotFree(executing, maxConcurrent) == executing < maxConcurrent

\* The worker polls the activity task queue and takes a task; with any number
\* of running instances a task is always waiting.
PollActivityTask ==
  /\ SlotFree(activityTasks, WorkerOptions(worker, env).maxConcurrentActivityTaskExecutions)
  /\ activityTasks' = activityTasks + 1
  /\ UNCHANGED <<worker, backend, env, status, input, wfTask, wfPc, cancelRequested,
                 store, scrape, analyze, calc, schedLog, result, redis, faults, inv,
                 scoreCall, scoreRet, invReply, now, temporalClient, instances, req,
                 res, workflowTasks, sticky, redisReady>>

\* An activity task ends and frees its slot.
ActivityTaskDone ==
  /\ activityTasks > 0
  /\ activityTasks' = activityTasks - 1
  /\ UNCHANGED <<worker, backend, env, status, input, wfTask, wfPc, cancelRequested,
                 store, scrape, analyze, calc, schedLog, result, redis, faults, inv,
                 scoreCall, scoreRet, invReply, now, temporalClient, instances, req,
                 res, workflowTasks, sticky, redisReady>>

\* The worker polls the workflow task queue and takes a task.
PollWorkflowTask ==
  /\ SlotFree(workflowTasks, WorkerOptions(worker, env).maxConcurrentWorkflowTaskExecutions)
  /\ workflowTasks' = workflowTasks + 1
  /\ UNCHANGED <<worker, backend, env, status, input, wfTask, wfPc, cancelRequested,
                 store, scrape, analyze, calc, schedLog, result, redis, faults, inv,
                 scoreCall, scoreRet, invReply, now, temporalClient, instances, req,
                 res, activityTasks, sticky, redisReady>>

\* A workflow task ends and frees its slot.
WorkflowTaskDone ==
  /\ workflowTasks > 0
  /\ workflowTasks' = workflowTasks - 1
  /\ UNCHANGED <<worker, backend, env, status, input, wfTask, wfPc, cancelRequested,
                 store, scrape, analyze, calc, schedLog, result, redis, faults, inv,
                 scoreCall, scoreRet, invReply, now, temporalClient, instances, req,
                 res, activityTasks, sticky, redisReady>>

SlotsInit ==
  /\ worker = "part_000"
  /\ backend = OllamaResponses
  /\ env \in SlotEnvs
  /\ status = "None"
  /\ input = <<>>
  /\ wfTask = FALSE
  /\ wfPc = "none"
  /\ cancelRequested = FALSE
  /\ store = NoInvocation
  /\ scrape = NoInvocation
  /\ analyze = [i \in Reviews |-> NoInvocation]
  /\ calc = NoInvocation
  /\ schedLog = <<>>
  /\ result = <<>>
  /\ redis = <<>>
  /\ faults = 0
  /\ inv = NoInvocation
  /\ scoreCall = <<>>
  /\ scoreRet = <<>>
  /\ ApiIdle

SlotsNext ==
  PollActivityTask \/ ActivityTaskDone \/ PollWorkflowTask \/ WorkflowTaskDone

SpecSlots == SlotsInit /\ [][SlotsNext]_vars

\* ------------------------------------------------------- start-up
\* What the store holds when the API process starts.
StartupStores ==
  {<<>>, (<<"a", "7">> :> <<"T", "V">>) @@ ((Str_score \o <<"a", "7">>) :> <<"8">>)}

\* The catch of router.get('/sentiment/:productUUID').
GetFailed == [status |-> 500, body |-> [error |-> "Failed to retrieve sentiment score"]]

\* connectRedis() resolves: the connection to the store is established.
connectRedis ==
  /\ ~redisReady
  /\ redisReady' = TRUE
  /\ UNCHANGED <<worker, backend, env, status, input, wfTask, wfPc, cancelRequested,
                 store, scrape, analyze, calc, schedLog, result, redis, faults, inv,
                 scoreCall, scoreRet, invReply, now, temporalClient, instances, req, res,
                 activityTasks, workflowTasks, sticky>>

\* A GET is handled before the connection is established. redisClient.connect()
\* was called when the process started: the client keeps the read of the score
\* until the connection is ready, or rejects it, and the catch answers 500.
GetSentimentEarly ==
  /\ ~redisReady
  /\ req.method \notin {"GET", "GET queued"}
  /\ \E productUUID \in UUIDs, client \in {"queues", "rejects"} :
       /\ req' = IF client = "queues"
                 THEN [method |-> "GET queued", productUUID |-> productUUID]
                 ELSE NoRequest
       /\ res' = IF client = "queues" THEN res ELSE GetFailed
  /\ UNCHANGED <<worker, backend, env, status, input, wfTask, wfPc, cancelRequested,
                 store, scrape, analyze, calc, schedLog, result, redis, faults, inv,
                 scoreCall, scoreRet, invReply, now, temporalClient, instances,
                 activityTasks, workflowTasks, sticky, redisReady>>

\* The connection is ready: the read the client kept is sent and returns.
GetSentimentResumes ==
  /\ redisReady
  /\ req.method = "GET queued"
  /\ req' = [method |-> "GET", productUUID |-> req.productUUID,
             score |-> RedisGet(redis, Str_score \o req.productUUID)]
  /\ UNCHANGED <<worker, backend, env, status, input, wfTask, wfPc, cancelRequested,
                 store, scrape, analyze, calc, schedLog, result, redis, faults, inv,
                 scoreCall, scoreRet, invReply, now, temporalClient, instances, res,
                 activityTasks, workflowTasks, sticky, redisReady>>

\* The API process has started: neither initTemporalClient() nor initRedis()
\* has finished.
StartupInit ==
  /\ worker \in WorkerScripts
  /\ backend = OllamaResponses
  /\ env = NoEnv
  /\ status = "None"
  /\ input = <<>>
  /\ wfTask = FALSE
  /\ wfPc = "none"
  /\ cancelRequested = FALSE
  /\ store = NoInvocation
  /\ scrape = NoInvocation
  /\ analyze = [i \in Reviews |-> NoInvocation]
  /\ calc = NoInvocation
  /\ schedLog = <<>>
  /\ result = <<>>
  /\ redis \in StartupStores
  /\ faults = 0
  /\ inv = NoInvocation
  /\ scoreCall = <<>>
  /\ scoreRet = <<>>
  /\ invReply = <<>>
  /\ now = 0
  /\ temporalClient = FALSE
  /\ instances = <<>>
  /\ req = NoRequest
  /\ res = NoResponse
  /\ activityTasks = 0
  /\ workflowTasks = 0
  /\ sticky = NoSticky
  /\ redisReady = FALSE

StartupNext ==
  \/ initTemporalClient
  \/ connectRedis
  \/ Tick
  \/ PostAnalyzeSentiment
  \/ GetSentimentEarly
  \/ GetSentimentResumes
  \/ GetSentimentReadScore
  \/ GetSentimentRespond

SpecStartup == StartupInit /\ [][StartupNext]_vars

\* ------------------------------------------------- sticky routing
\* The workers that poll the task queue.
Workers == {"W1", "W2"}

StickyEnvs ==
  {[NoEnv EXCEPT !["STICKY_QUEUE_SCHEDULE_TO_START_TIMEOUT"] = t] :
     t \in {Unset, <<"2", "s">>}}

\* A workflow task of the instance is scheduled: on the sticky queue of the
\* worker that holds the instance, else on the task queue all workers poll.
StickyTaskScheduled ==
  /\ ~sticky.pending
  /\ sticky' = [sticky EXCEPT !.pending = TRUE, !.waited = 0]
  /\ UNCHANGED <<worker, backend, env, status, input, wfTask, wfPc, cancelRequested,
                 store, scrape, analyze, calc, schedLog, result, redis, faults, inv,
                 scoreCall, scoreRet, invReply, now, temporalClient, instances, req,
                 res, activityTasks, workflowTasks, redisReady>>

\* A worker takes or frees its last workflow task slot.
SlotChanges(w) ==
  /\ sticky' = [sticky EXCEPT !.free = IF w \in @ THEN @ \ {w} ELSE @ \cup {w}]
  /\ UNCHANGED <<worker, backend, env, status, input, wfTask, wfPc, cancelRequested,
                 store, scrape, analyze, calc, schedLog, result, redis, faults, inv,
                 scoreCall, scoreRet, invReply, now, temporalClient, instances, req,
                 res, activityTasks, workflowTasks, redisReady>>

\* The worker that holds the instance pulls the task from its sticky queue and
\* decides from the state it has cached.
StickyPoll(w) ==
  /\ sticky.pending
  /\ sticky.holder = w
  /\ w \in sticky.free
  /\ sticky' = [sticky EXCEPT !.pending = FALSE, !.waited = 0, !.by = w,
                              !.replay = FALSE]
  /\ UNCHANGED <<worker, backend, env, status, input, wfTask, wfPc, cancelRequested,
                 store, scrape, analyze, calc, schedLog, result, redis, faults, inv,
                 scoreCall, scoreRet, invReply, now, temporalClient, instances, req,
                 res, activityTasks, workflowTasks, redisReady>>

\* A second passes with the task waiting on the sticky queue.
StickySecond ==
  /\ sticky.pending
  /\ sticky.holder # "none"
  /\ sticky.waited < stickyQueueScheduleToStartTimeout(env)
  /\ sticky' = [sticky EXCEPT !.waited = @ + 1]
  /\ UNCHANGED <<worker, backend, env, status, input, wfTask, wfPc, cancelRequested,
                 store, scrape, analyze, calc, schedLog, result, redis, faults, inv,
                 scoreCall, scoreRet, invReply, now, temporalClient, instances, req,
                 res, activityTasks, workflowTasks, redisReady>>

\* The task has waited for stickyQueueScheduleToStartTimeout: the affinity is
\* dropped and the task goes to the queue all workers poll.
StickyExpires ==
  /\ sticky.pending
  /\ sticky.holder # "none"
  /\ sticky.waited >= stickyQueueScheduleToStartTimeout(env)
  /\ sticky' = [sticky EXCEPT !.holder = "none", !.lost = sticky.holder]
  /\ UNCHANGED <<worker, backend, env, status, input, wfTask, wfPc, cancelRequested,
                 store, scrape, analyze, calc, schedLog, result, redis, faults, inv,
                 scoreCall, scoreRet, invReply, now, temporalClient, instances, req,
                 res, activityTasks, workflowTasks, redisReady>>

\* A worker with a free slot claims the task from the queue all workers poll,
\* replays the whole history and holds the instance from then on.
NormalPoll(w) ==
  /\ sticky.pending
  /\ sticky.holder = "none"
  /\ w \in sticky.free
  /\ sticky' = [sticky EXCEPT !.pending = FALSE, !.waited = 0, !.holder = w,
                              !.by = w, !.replay = TRUE]
  /\ UNCHANGED <<worker, backend, env, status, input, wfTask, wfPc, cancelRequested,
                 store, scrape, analyze, calc, schedLog, result, redis, faults, inv,
                 scoreCall, scoreRet, invReply, now, temporalClient, instances, req,
                 res, activityTasks, workflowTasks, redisReady>>

StickyInit ==
  /\ worker = "part_000"
  /\ backend = OllamaResponses
  /\ env \in StickyEnvs
  /\ status = "Running"
  /\ input \in ProductNames
  /\ wfTask = FALSE
  /\ wfPc = "none"
  /\ cancelRequested = FALSE
  /\ store = NoInvocation
  /\ scrape = NoInvocation
  /\ analyze = [i \in Reviews |-> NoInvocation]
  /\ calc = NoInvocation
  /\ schedLog = <<>>
  /\ result = <<>>
  /\ redis = <<>>
  /\ faults = 0
  /\ inv = NoInvocation
  /\ scoreCall = <<>>
  /\ scoreRet = <<>>
  /\ ApiIdle

StickyNext ==
  \/ StickyTaskScheduled
  \/ StickySecond
  \/ StickyExpires
  \/ \E w \in Workers : SlotChanges(w)
  \/ \E w \in Workers : StickyPoll(w)
  \/ \E w \in Workers : NormalPoll(w)

SpecSticky == StickyInit /\ [][StickyNext]_vars

\* ------------------------------------------------ fair scheduling
\* The scoring backend does not answer review i's post, which has no timeout
\* of its own: the attempt ends when its startToCloseTimeout has passed, and
\* the policy retries it or gives up. The clock is kept modulo MaxNow + 1 and
\* the attempt count is not counted beyond MaxAttempt.
AnalyzeTimesOut(i) ==
  /\ AttemptOpen(analyze[i])
  /\ backend = {}
  /\ LET outcome == [ok |-> FALSE, value |-> "Timeout"]
         after   == RecordOutcome(analyze[i], outcome, Policy, InstanceOpen)
     IN /\ analyze' = [analyze EXCEPT ![i] =
                         [after EXCEPT !.attempt = Min(@, MaxAttempt), !.delay = 0]]
        /\ wfTask' = (wfTask \/ (InstanceOpen /\ Settled(after)))
  /\ now' = (now + 1) % (MaxNow + 1)
  /\ UNCHANGED <<worker, backend, env, status, input, wfPc, cancelRequested, store, scrape,
                 calc, schedLog, result, redis, faults, inv, scoreCall, scoreRet, invReply,
                 temporalClient, instances, req, res, activityTasks, workflowTasks,
                 sticky, redisReady>>

\* The worker runs the scoring calls one at a time, in the order of the reviews:
\* an attempt of review i, which the backend answers or leaves to time out.
AnalyzeInTurn ==
  \E i \in Reviews :
    /\ \A j \in 1..(i - 1) : analyze[j].st # "open"
    /\ (AnalyzeAttempt(i) \/ AnalyzeTimesOut(i))

\* The scoring backend answers every post, or none; no other fault occurs.
LiveInit ==
  /\ worker \in WorkerScripts
  /\ backend \in {{<<"8">>}, {}}
  /\ env = NoEnv
  /\ status = "None"
  /\ input = <<>>
  /\ wfTask = FALSE
  /\ wfPc = "none"
  /\ cancelRequested = FALSE
  /\ store = NoInvocation
  /\ scrape = NoInvocation
  /\ analyze = [i \in Reviews |-> NoInvocation]
  /\ calc = NoInvocation
  /\ schedLog = <<>>
  /\ result = <<>>
  /\ redis = <<>>
  /\ faults = MaxFaults
  /\ inv = NoInvocation
  /\ scoreCall = <<>>
  /\ scoreRet = <<>>
  /\ ApiIdle

LiveNext ==
  \/ StartWorkflow
  \/ WorkflowTask
  \/ StoreAttempt
  \/ ScrapeAttempt
  \/ AnalyzeInTurn
  \/ CalcAttempt

\* Workers keep polling and timers fire: a workflow task that waits is run, and
\* an attempt that is open ends.
SpecLive ==
  /\ LiveInit
  /\ [][LiveNext]_vars
  /\ WF_vars(StartWorkflow)
  /\ WF_vars(WorkflowTask)
  /\ WF_vars(StoreAttempt)
  /\ WF_vars(ScrapeAttempt)
  /\ WF_vars(AnalyzeInTurn)
  /\ WF_vars(CalcAttempt)

\* ------------------------------------------ histories of other lengths
\* The numbers of reviews a recorded history holds.
ReviewCounts == {1, 5, 20}

\* The scrapeReviews invocation completes with as many reviews as the history
\* is to hold (the loop of scrapeReviews run to that count).
RecordScrape ==
  /\ AttemptOpen(scrape)
  /\ LET outcome == [ok |-> TRUE, value |-> [i \in DOMAIN analyze |-> [review |-> i]]]
         after   == RecordOutcome(scrape, outcome, Policy, InstanceOpen)
     IN /\ AttemptEnds(scrape, after, "none")
        /\ scrape' = after
  /\ UNCHANGED <<worker, backend, env, status, input, wfPc, cancelRequested, store, analyze,
                 calc, schedLog, result, redis, inv, scoreCall, scoreRet, apiVars>>

\* The analyzeSentiment attempts run one after the other, in the order of the
\* reviews.
RecordAnalyze ==
  \E i \in DOMAIN analyze :
    /\ \A j \in 1..(i - 1) : analyze[j].st # "open"
    /\ AnalyzeAttempt(i)

ReplayInit ==
  /\ worker = "part_000"
  /\ backend = {<<"8">>}
  /\ env = NoEnv
  /\ status = "None"
  /\ input = <<>>
  /\ wfTask = FALSE
  /\ wfPc = "none"
  /\ cancelRequested = FALSE
  /\ store = NoInvocation
  /\ scrape = NoInvocation
  /\ analyze \in {[i \in 1..n |-> NoInvocation] : n \in ReviewCounts}
  /\ calc = NoInvocation
  /\ schedLog = <<>>
  /\ result = <<>>
  /\ redis = <<>>
  /\ faults = 0
  /\ inv = NoInvocation
  /\ scoreCall = <<>>
  /\ scoreRet = <<>>
  /\ ApiIdle

ReplayNext ==
  \/ StartWorkflow
  \/ WorkflowTask
  \/ StoreAttempt
  \/ RecordScrape
  \/ RecordAnalyze
  \/ CalcAttempt
  \/ WorkerCrash

SpecReplay == ReplayInit /\ [][ReplayNext]_vars

\* ------------------------------------------------------------- claims
IsPrefix(a, b) == Len(a) <= Len(b) /\ SubSeq(b, 1, Len(a)) = a

\* The activities of one run in the order the pipeline schedules them.
PipelineOrder ==
  << <<"storeProductInDB", 0>>, <<"scrapeReviews", 0>> >>
  \o [i \in Reviews |-> <<"analyzeSentiment", i>>]
  \o << <<"calculateAndStoreScore", 0>> >>

CalcScheduled == \E n \in DOMAIN schedLog : schedLog[n][1] = "calculateAndStoreScore"

\* C1: calculateAndStoreScore is never scheduled while one of the
\* analyzeSentiment invocations of the instance has no terminal outcome
\* recorded, whatever the order in which they complete.
C1_FanOutJoin ==
  (CalcScheduled \/ calc.st # "none") => \A i \in Reviews : Settled(analyze[i])

\* C1 witness: step 4 is scheduled after a fan-out in which attempts were retried.
C1_Witness ==
  /\ calc.st = "open"
  /\ CalcScheduled
  /\ faults > 0
  /\ \A i \in Reviews : analyze[i].st = "completed"

\* C2: the activities are scheduled in the order storeProductInDB,
\* scrapeReviews, analyzeSentiment for every review, calculateAndStoreScore;
\* a step is scheduled only once the step before it has completed, and a
\* completed run has scheduled every step exactly once.
C2_PipelineOrdering ==
  /\ IsPrefix(schedLog, PipelineOrder)
  /\ (store.st # "none") = (Len(schedLog) >= 1)
  /\ (scrape.st # "none") = (Len(schedLog) >= 2)
  /\ \A i \in Reviews : (analyze[i].st # "none") = (Len(schedLog) >= 2 + numberOfReviews)
  /\ (calc.st # "none") = (Len(schedLog) = Len(PipelineOrder))
  /\ scrape.st # "none" => store.st = "completed"
  /\ \A i \in Reviews : analyze[i].st # "none" => scrape.st = "completed"
  /\ calc.st # "none" => \A i \in Reviews : analyze[i].st = "completed"
  /\ status = "Completed" => schedLog = PipelineOrder /\ calc.st = "completed"

\* C2 witness: a run that reached Completed.
C2_Witness == status = "Completed" /\ schedLog = PipelineOrder

\* C3: once one analyzeSentiment invocation has failed for good, the instance
\* fails (at its next workflow task at the latest), calculateAndStoreScore is
\* never scheduled and no score key is written, however many of the other
\* invocations succeeded.
C3_NoPartialAggregation ==
  (\E i \in Reviews : analyze[i].st = "failed") =>
    /\ calc.st = "none"
    /\ ~CalcScheduled
    /\ \A u \in UUIDs : ~RedisHas(redis, ScoreKey(u))
    /\ status \in {"Running", "Failed"}
    /\ status = "Running" =>
         wfTask /\ productSentimentWorkflow(input, History).cmd = "throw"

\* C3 witness: four invocations succeeded, one failed, the instance is Failed.
C3_Witness ==
  /\ status = "Failed"
  /\ Cardinality({i \in Reviews : analyze[i].st = "completed"}) = numberOfReviews - 1
  /\ Cardinality({i \in Reviews : analyze[i].st = "failed"}) = 1

\* C4: the list handed to calculateAndStoreScore has one entry per review and
\* its i-th entry is the score returned for the i-th review of scrapeReviews,
\* whatever the order of the completions; the result counts N reviews.
C4_ScoreOrder ==
  /\ calc.st # "none" =>
       /\ Len(calc.args[2]) = numberOfReviews
       /\ Len(scrape.val) = numberOfReviews
       /\ \A i \in Reviews :
            /\ analyze[i].args = <<scrape.val[i]>>
            /\ calc.args[2][i] = analyze[i].val
  /\ status = "Completed" => result.totalReviews = numberOfReviews

\* C4 witness: a completed run whose scores differ from one review to the next.
C4_Witness ==
  /\ status = "Completed"
  /\ calc.args[2][1] # calc.args[2][2]
  /\ calc.args[2][1] # calc.args[2][numberOfReviews]

\* The sum of the scores in units of 1/Scale, taken from the head.
RECURSIVE SumUnits(_)
SumUnits(l) == IF l = <<>> THEN 0 ELSE Head(l).v + SumUnits(Tail(l))

\* C5: for a non-empty list of numeric scores calculateAndStoreScore returns
\* the arithmetic mean (the sum divided by the length, to the nearest
\* representable number), the length as totalReviews and the productUUID it
\* was given, and stores the string form of the mean under score:{productUUID};
\* [2, 4, 6, 8] gives 5 and 4.
C5_AggregateCorrect ==
  \A n \in DOMAIN scoreRet :
    LET scores == scoreCall.sentimentScores
        r      == scoreRet[n]
        key    == Str_score \o scoreCall.productUUID
    IN Len(scores) > 0 =>
         /\ r.totalReviews = Len(scores)
         /\ r.productUUID = scoreCall.productUUID
         /\ r.averageScore.k = "num"
         /\ 2 * Abs(r.averageScore.v * Len(scores) - SumUnits(scores)) <= Len(scores)
         /\ RedisHas(redis, key)
         /\ ParseFloat(redis[key]) = r.averageScore
         /\ scores = <<Num(2), Num(4), Num(6), Num(8)>> =>
              /\ r.averageScore = Num(5)
              /\ r.totalReviews = 4
              /\ redis[key] = <<"5">>

\* C5 witness: the call on [2, 4, 6, 8] has returned.
C5_Witness ==
  /\ scoreRet # <<>>
  /\ scoreCall.sentimentScores = <<Num(2), Num(4), Num(6), Num(8)>>
  /\ scoreRet[1].averageScore = Num(5)

\* C6: a status of Completed, Failed, TimedOut or Cancelled never changes
\* again, whatever happens later (a late activity outcome, a cancel request, a
\* worker crash), the result is set once, on closing, and Running is left only
\* for one of those four.
C6_TerminalAbsorbing ==
  [][/\ status \in Closed => status' = status /\ result' = result
     /\ status = "Running" => status' \in Closed \cup {"Running"}
     /\ status = "Running" /\ status' = "Running" => result' = result]_vars

\* C6 witness: a Cancelled instance whose worker died and which was asked to
\* cancel, with an analyzeSentiment attempt that failed after the close (a
\* first attempt is given up on only when the instance is closed).
C6_Witness ==
  /\ status = "Cancelled"
  /\ wfPc = "evicted"
  /\ cancelRequested
  /\ worker = "part_000"
  /\ \E i \in Reviews : analyze[i].st = "failed" /\ analyze[i].attempt = 1

\* C7: under a policy whose maximumAttempts is M an invocation is never
\* attempted more than M times and is given up on at the failure of attempt M;
\* maximumAttempts = 3 allows two retries.
C7_RetryBudget ==
  LET M == Policy.maximumAttempts
  IN /\ M > 0 => inv.attempt <= M
     /\ M > 0 /\ inv.st = "failed" => inv.attempt = M
     /\ M = 3 /\ inv.st = "failed" => inv.attempt - 1 = 2

\* C7 witness: the third attempt failed under maximumAttempts = 3.
C7_Witness ==
  /\ Policy.maximumAttempts = 3
  /\ inv.st = "failed"
  /\ inv.attempt = 3

\* The environment in which only RETRY_MAXIMUM_ATTEMPTS is set, to 5.
FiveAttemptsEnv == [NoEnv EXCEPT !["RETRY_MAXIMUM_ATTEMPTS"] = <<"5">>]

\* C8: the delay before the retry that follows failed attempt k is
\* min(initialInterval * backoffCoefficient^(k-1), maximumInterval): never
\* above maximumInterval, never below the delay before it; under
\* {initial 1, max 60, coefficient 2, maximumAttempts 5} the delays are
\* 1, 2, 4, 8 and the failure of attempt 5 gives up.
C8_RetryBackoff ==
  LET P == Policy
      k == inv.attempt - 1
  IN /\ inv.st # "completed" /\ k >= 1 =>
          /\ inv.delay = Min(P.initialInterval * Pow(P.backoffCoefficient, k - 1),
                             P.maximumInterval)
          /\ inv.delay <= P.maximumInterval
          /\ inv.delay >= P.initialInterval \/ inv.delay = P.maximumInterval
          /\ nextAction(inv.attempt, P).action = "Retry" =>
               nextAction(inv.attempt, P).delay >= inv.delay
     /\ worker = "part_000" /\ env = FiveAttemptsEnv =>
          /\ P = [initialInterval |-> 1, maximumInterval |-> 60,
                  backoffCoefficient |-> 2, maximumAttempts |-> 5]
          /\ inv.st # "completed" /\ k >= 1 => inv.delay = <<1, 2, 4, 8>>[k]
          /\ inv.st = "failed" => inv.attempt = 5

\* C8 witness: the fifth attempt failed after delays up to 8 seconds.
C8_Witness ==
  /\ worker = "part_000"
  /\ env = FiveAttemptsEnv
  /\ inv.st = "failed"
  /\ inv.delay = 8

\* C9: every activity of the workflow runs under the default policy
\* {initialInterval 1s, maximumInterval 1m, backoffCoefficient 2,
\* maximumAttempts 3}: none is attempted a fourth time.
C9_AtMostThreeAttempts ==
  /\ store.attempt <= 3
  /\ scrape.attempt <= 3
  /\ calc.attempt <= 3
  /\ \A i \in Reviews : analyze[i].attempt <= 3

InRange(x) == x.k = "num" /\ 0 <= x.v /\ x.v <= 10 * Scale

\* C10: an analyzeSentiment invocation never completes with NaN or with a
\* number outside [0, 10], and no such value is handed to
\* calculateAndStoreScore.
C10_NoNaNPropagation ==
  /\ \A i \in Reviews : analyze[i].st = "completed" => InRange(analyze[i].val)
  /\ calc.st # "none" => \A n \in DOMAIN calc.args[2] : InRange(calc.args[2][n])

\* C11: a Terminal failure (the backend answers with a text that is no number)
\* makes the invocation give up at once, whatever is left of the budget; a
\* Transient failure (the post to the backend fails) is retried as long as the
\* attempt count is below maximumAttempts.
C11_TerminalVsTransient ==
  /\ invReply # <<>> /\ invReply.ok /\ IsNaN(ParseFloat(invReply.response)) =>
       inv.st = "failed"
  /\ invReply # <<>> /\ ~invReply.ok =>
       \/ inv.st = "open" /\ inv.attempt >= 2
       \/ inv.st = "failed" /\ Policy.maximumAttempts > 0
                            /\ inv.attempt = Policy.maximumAttempts

\* The id the start request for productName made at the millisecond t must carry.
ExpectedWorkflowId(productName, t) ==
  <<"s", "e", "n", "t", "i", "m", "e", "n", "t", "-",
    "a", "n", "a", "l", "y", "s", "i", "s", "-">>
  \o productName \o <<"-">> \o NatToString(t)

\* The instance a POST for productName at the millisecond t starts.
StartedBy(productName, t) ==
  [workflowId |-> ExpectedWorkflowId(productName, t), args |-> <<productName>>,
   status |-> "Running"]

\* A POST whose productName is missing or empty is answered 400, starts no
\* instance and writes nothing.
PostRefused ==
  /\ res'.status = 400
  /\ instances' = instances
  /\ redis' = redis

\* A POST with a non-empty productName starts exactly one instance, with that
\* input and the id sentiment-analysis-{productName}-{unixMillis}, and answers
\* with that id.
PostStarted ==
  LET productName == req'.body.productName.s
  IN /\ res'.status = 200
     /\ instances' = Append(instances, StartedBy(productName, req'.at))
     /\ res'.body.workflowId = ExpectedWorkflowId(productName, req'.at)
     /\ redis' = redis

\* The start was refused (the client is not connected yet, or the id is
\* taken): the POST is answered 500 and starts no instance.
PostFailed ==
  LET productName == req'.body.productName.s
  IN /\ res'.status = 500
     /\ instances' = instances
     /\ redis' = redis
     /\ \/ ~temporalClient
        \/ \E n \in DOMAIN instances :
             instances[n].workflowId = ExpectedWorkflowId(productName, req'.at)

NameGiven(v) == v.t = "string" /\ Len(v.s) > 0

\* C12 as it holds: a POST without productName, or with an empty one, is
\* answered 400, starts no instance and writes nothing; a POST with a non-empty
\* productName starts exactly one instance with that input and the id
\* sentiment-analysis-{productName}-{unixMillis} and answers with that id,
\* unless the start itself fails (client not yet connected, id taken), when it
\* is answered 500 and starts none.
C12_StartValidation ==
  [][PostAnalyzeSentiment =>
       IF NameGiven(req'.body.productName) THEN PostStarted \/ PostFailed
       ELSE PostRefused]_vars

\* C12 witness: a second instance was started for "TV", a millisecond after
\* the first, and the response carries its id.
C12_Witness ==
  /\ Len(instances) = 2
  /\ res.status = 200
  /\ req.body.productName = JsString(<<"T", "V">>)
  /\ req.at = 1
  /\ instances[2].workflowId = res.body.workflowId
  /\ instances[1].workflowId # instances[2].workflowId

\* C12 as stated: every POST with a non-empty productName starts exactly one
\* instance and answers with its id.
C12_EveryNamedPostStarts ==
  [][PostAnalyzeSentiment =>
       IF NameGiven(req'.body.productName) THEN PostStarted
       ELSE PostRefused]_vars

\* The handler's read of the score: null exactly when nothing is recorded under
\* score:{productUUID}; nothing is recorded before step 4 is scheduled, and the
\* score is recorded once step 4 has completed for that product.
ScoreRead ==
  LET key == <<"s", "c", "o", "r", "e", ":">> \o req'.productUUID
  IN /\ (req'.score.t = "null") = (key \notin DOMAIN redis)
     /\ key \in DOMAIN redis => req'.score = [t |-> "string", s |-> redis[key]]
     /\ calc.st = "none" => req'.score.t = "null"
     /\ calc.st = "completed" /\ calc.args[1] = req'.productUUID =>
          req'.score.t = "string"

\* The answer: 404 when the score read was null, else 200 with the requested
\* productUUID, the name stored under it and the number the stored score spells.
ScoreAnswered ==
  IF req.score.t = "null" THEN res'.status = 404
  ELSE /\ res'.status = 200
       /\ res'.body.productUUID = req.productUUID
       /\ req.productUUID \in DOMAIN redis
       /\ res'.body.productName = [t |-> "string", s |-> redis[req.productUUID]]
       /\ res'.body.productName.s = input
       /\ res'.body.sentimentScore = ParseFloat(req.score.s)
       /\ calc.st = "completed" => res'.body.sentimentScore = calc.val.averageScore

C14_PersistedScoreRange ==
  status = "Completed" =>
    LET key == <<"s", "c", "o", "r", "e", ":">> \o result.productUUID
    IN /\ InRange(result.averageScore)
       /\ key \in DOMAIN redis
       /\ ParseFloat(redis[key]) = result.averageScore
       /\ res.status = 200 /\ res.body.productUUID = result.productUUID =>
            res.body.sentimentScore = result.averageScore

\* C15: a second execution of calculateAndStoreScore with the same productUUID
\* and scores leaves the value under score:{productUUID} as the first wrote it,
\* and no execution changes another key of the store.
C15_IdempotentPersistence ==
  [][ScoreCalled =>
       LET key == <<"s", "c", "o", "r", "e", ":">> \o scoreCall.productUUID
       IN /\ DOMAIN redis' = DOMAIN redis \cup {key}
          /\ \A k \in DOMAIN redis : k # key => redis'[k] = redis[k]
          /\ Len(scoreRet) >= 1 =>
               /\ redis'[key] = redis[key]
               /\ redis' = redis
               /\ scoreRet'[Len(scoreRet) + 1] = scoreRet[Len(scoreRet)]]_vars

\* C15 witness: the call was executed twice on a store that held other keys.
C15_Witness ==
  /\ Len(scoreRet) = 2
  /\ Cardinality(DOMAIN redis) = 3
  /\ Len(scoreCall.sentimentScores) > 0

\* The number a slot variable of the environment sets, or the default.
SlotLimit(name, dflt) ==
  CASE env[name] = <<"1">> -> 1
    [] env[name] = <<"2">> -> 2
    [] env[name] = <<"3">> -> 3
    [] OTHER -> dflt

C17_WorkflowIdUnique ==
  [][PostAnalyzeSentiment =>
       /\ NameGiven(req'.body.productName) /\ temporalClient =>
            \A n \in DOMAIN instances :
              instances[n].workflowId #
                ExpectedWorkflowId(req'.body.productName.s, req'.at)
       /\ \A a, b \in DOMAIN instances' :
            a # b => instances'[a].workflowId # instances'[b].workflowId]_vars

\* Invocation x failed for good with the error e.
FailedWith(x, e) == x.st = "failed" /\ x.val = e

\* The workflow's failure is the error of an invocation that failed for good.
FailureOfActivity ==
  \/ FailedWith(store, result)
  \/ FailedWith(scrape, result)
  \/ \E i \in Reviews : FailedWith(analyze[i], result)
  \/ FailedWith(calc, result)

\* C18: when a step fails for good the instance becomes Failed with the error
\* of the failing activity as its failure; the product record written by
\* storeProductInDB keeps its value, and no step deletes a key of the store or
\* changes the value under it.
C18_FailureWithoutRollback ==
  /\ [](status = "Failed" =>
          /\ FailureOfActivity
          /\ store.st = "completed" =>
               store.val \in DOMAIN redis /\ redis[store.val] = input)
  /\ [][\A k \in DOMAIN redis : k \in DOMAIN redis' /\ redis'[k] = redis[k]]_vars

\* C18 witness: the run failed on a scoring invocation after the product was
\* stored.
C18_Witness ==
  /\ status = "Failed"
  /\ store.st = "completed"
  /\ scrape.st = "completed"
  /\ store.val \in DOMAIN redis
  /\ \E i \in Reviews : analyze[i].st = "failed" /\ result = analyze[i].val

\* The history h cut after its first k stages (storeProductInDB, scrapeReviews,
\* the analyzeSentiment calls, calculateAndStoreScore): the later stages are
\* not scheduled yet and no cancel request is recorded.
Truncate(h, k) ==
  [cancelRequested |-> FALSE,
   store   |-> IF k >= 1 THEN h.store ELSE NoInvocation,
   scrape  |-> IF k >= 2 THEN h.scrape ELSE NoInvocation,
   analyze |-> IF k >= 3 THEN h.analyze ELSE [i \in DOMAIN h.analyze |-> NoInvocation],
   calc    |-> IF k >= 4 THEN h.calc ELSE NoInvocation]

\* The history h cut right after stage k was scheduled: its invocations are
\* open with the arguments recorded.
Pending(h, k) ==
  [Truncate(h, k) EXCEPT
     !.store   = IF k = 1 THEN Scheduled(h.store.args) ELSE @,
     !.scrape  = IF k = 2 THEN Scheduled(h.scrape.args) ELSE @,
     !.analyze = IF k = 3 THEN [i \in DOMAIN h.analyze |-> Scheduled(h.analyze[i].args)]
                 ELSE @,
     !.calc    = IF k = 4 THEN Scheduled(h.calc.args) ELSE @]

\* Stage k of the history h has been scheduled.
StageScheduled(h, k) ==
  CASE k = 1 -> h.store.st # "none"
    [] k = 2 -> h.scrape.st # "none"
    [] k = 3 -> \E i \in DOMAIN h.analyze : h.analyze[i].st # "none"
    [] k = 4 -> h.calc.st # "none"

\* The command c schedules exactly the invocations of stage k that the history
\* h records, with the arguments it records.
SameSchedule(c, h, k) ==
  /\ c.cmd = "schedule"
  /\ CASE k = 1 -> c.activity = "storeProductInDB" /\ c.args = h.store.args
       [] k = 2 -> c.activity = "scrapeReviews" /\ c.args = h.scrape.args
       [] k = 3 -> /\ c.activity = "analyzeSentiment"
                   /\ DOMAIN c.args = DOMAIN h.analyze
                   /\ \A i \in DOMAIN h.analyze :
                        h.analyze[i].st # "none" /\ h.analyze[i].args = <<c.args[i]>>
       [] k = 4 -> c.activity = "calculateAndStoreScore" /\ c.args = h.calc.args

FirstUnscheduled(h) ==
  IF \E k \in 1..4 : ~StageScheduled(h, k)
  THEN CHOOSE k \in 1..4 :
         ~StageScheduled(h, k) /\ \A j \in 1..(k - 1) : StageScheduled(h, j)
  ELSE 5

\* C20: a workflow task run after the worker was lost leaves every invocation
\* that is already scheduled as it is recorded and schedules nothing but the
\* first stage not scheduled yet; no activity is scheduled twice and a
\* completed invocation is never run again; a Completed instance has the
\* result the workflow function returns over the recorded activity results.
C20_CrashRecovery ==
  /\ [](/\ \A i, j \in DOMAIN schedLog : schedLog[i] = schedLog[j] => i = j
        /\ status = "Completed" =>
             /\ productSentimentWorkflow(input, History).cmd = "return"
             /\ result = calculateAndStoreScore(
                           store.val, [i \in DOMAIN analyze |-> analyze[i].val]).ret)
  /\ [][/\ (WorkflowTask /\ wfPc = "evicted") =>
             /\ store.st # "none" => store' = store
             /\ scrape.st # "none" => scrape' = scrape
             /\ \A i \in DOMAIN analyze : analyze[i].st # "none" => analyze'[i] = analyze[i]
             /\ calc.st # "none" => calc' = calc
             /\ \A k \in 1..4 :
                  StageScheduled(History', k) /\ ~StageScheduled(History, k) =>
                    k = FirstUnscheduled(History)
        /\ store.st = "completed" => store' = store
        /\ scrape.st = "completed" => scrape' = scrape
        /\ \A i \in DOMAIN analyze : analyze[i].st = "completed" => analyze'[i] = analyze[i]
        /\ calc.st = "completed" => calc' = calc]_vars

\* C20 witness: the worker was lost while the scoring calls ran; their results
\* are recorded and the instance waits to be rebuilt from its history, to go on
\* with calculateAndStoreScore.
C20_Witness ==
  /\ status = "Running"
  /\ wfPc = "evicted"
  /\ wfTask
  /\ \A i \in DOMAIN analyze : analyze[i].st = "completed"
  /\ FirstUnscheduled(History) = 4

\* The invocation recorded as x before a step and as y after it: an outcome
\* once recorded stays as it is, and an outcome is recorded for a scheduled
\* invocation only.
OneOutcome(x, y) ==
  /\ Settled(x) => y = x
  /\ Settled(y) /\ ~Settled(x) => x.st = "open"

\* C21: for each of storeProductInDB, scrapeReviews, calculateAndStoreScore
\* and every analyzeSentiment invocation, at most one outcome (completed, or
\* failed for good) is ever recorded, whatever attempts, retries, timeouts,
\* cancel requests and worker losses occur.
C21_AtMostOneOutcome ==
  [][/\ OneOutcome(store, store')
     /\ OneOutcome(scrape, scrape')
     /\ \A i \in DOMAIN analyze : OneOutcome(analyze[i], analyze'[i])
     /\ OneOutcome(calc, calc')]_vars

\* C21 witness: every allowed fault was spent on attempts, one scoring
\* invocation failed for good after its retries and others completed.
C21_Witness ==
  /\ faults = MaxFaults
  /\ store.st = "completed"
  /\ scrape.st = "completed"
  /\ \E i \in DOMAIN analyze : analyze[i].st = "failed" /\ analyze[i].attempt >= 2
  /\ \E j \in DOMAIN analyze : analyze[j].st = "completed"

\* No activity is scheduled in the step: no invocation leaves the state none
\* and the list of scheduled activities is as it was.
NothingScheduled ==
  /\ schedLog' = schedLog
  /\ store.st = "none" => store' = store
  /\ scrape.st = "none" => scrape' = scrape
  /\ \A i \in DOMAIN analyze : analyze[i].st = "none" => analyze'[i] = analyze[i]
  /\ calc.st = "none" => calc' = calc

\* C22: a Running instance with a recorded cancel request closes as Cancelled
\* at its next workflow task and as nothing else; from the request on no
\* activity is scheduled; the attempts already handed out may end and have
\* their outcome recorded, which leaves a Cancelled instance Cancelled.
C22_CooperativeCancellation ==
  [][/\ cancelRequested =>
          /\ NothingScheduled
          /\ status' \in {status, "Cancelled"}
          /\ cancelRequested'
     /\ (WorkflowTask /\ cancelRequested) =>
          status' = "Cancelled" /\ result' = "CancelledFailure"
     /\ (RequestCancel /\ status = "Running") => cancelRequested' /\ wfTask'
     /\ status = "Cancelled" => status' = "Cancelled" /\ NothingScheduled]_vars

\* C22 witness: the instance was cancelled while scrapeReviews ran; the
\* attempt failed after the instance closed, was recorded and not retried, and
\* no scoring call was scheduled.
C22_Witness ==
  /\ status = "Cancelled"
  /\ worker = "part_000"
  /\ store.st = "completed"
  /\ scrape.st = "failed" /\ scrape.attempt = 1
  /\ \A i \in DOMAIN analyze : analyze[i].st = "none"
  /\ calc.st = "none"

\* The seconds a task may wait on a sticky queue: 60 unless the environment
\* sets another duration.
StickyLimit ==
  IF env["STICKY_QUEUE_SCHEDULE_TO_START_TIMEOUT"] = Unset THEN 60
  ELSE DurationSeconds(env["STICKY_QUEUE_SCHEDULE_TO_START_TIMEOUT"])

\* C23: while a worker holds the instance, a workflow task of the instance is
\* given to that worker only, which decides without replay; the affinity is
\* dropped only when a task has waited stickyQueueScheduleToStartTimeout (one
\* minute by default) without being pulled, and never outlasts it; a task of
\* an instance no worker holds is claimed by a worker with a free slot, which
\* replays the history and holds the instance from then on.
C23_StickyRouting ==
  /\ [](sticky.holder # "none" => sticky.waited <= StickyLimit)
  /\ [][/\ (sticky.pending /\ ~sticky'.pending) =>
             /\ sticky'.by \in sticky.free
             /\ sticky.holder # "none" =>
                  sticky'.by = sticky.holder /\ ~sticky'.replay
             /\ sticky.holder = "none" =>
                  sticky'.replay /\ sticky'.holder = sticky'.by
        /\ (sticky.holder # "none" /\ sticky'.holder # sticky.holder) =>
             /\ sticky.pending
             /\ sticky.waited >= StickyLimit
             /\ sticky'.holder = "none"]_vars

\* C23 witness: with the default timeout, the affinity of W1 expired and W2
\* claimed the task by replay.
C23_Witness ==
  /\ env["STICKY_QUEUE_SCHEDULE_TO_START_TIMEOUT"] = Unset
  /\ sticky.lost = "W1"
  /\ sticky.holder = "W2"
  /\ sticky.by = "W2"
  /\ sticky.replay
  /\ ~sticky.pending

\* C24: under fair scheduling every started instance reaches a terminal
\* status, also when the scoring backend never answers; and an instance none
\* of whose activities failed for good closes as Completed.
C24_EveryWorkflowTerminates ==
  /\ (status = "Running") ~> (status \in Closed)
  /\ [](status \in Closed /\ ~FailureOfActivity /\ ~cancelRequested
          => status = "Completed")

PostEarly ==
  PostAnalyzeSentiment /\ ~temporalClient /\ NameGiven(req'.body.productName)

\* C26 as it holds: a POST with a non-empty productName handled before
\* initTemporalClient() has finished is answered 500 and starts no instance; a
\* GET handled before the store connection is established is answered 500 if
\* the store client rejects the read, and is otherwise kept unanswered until
\* the connection is established and then answered from the store, 404 or
\* 200; neither changes the store.
C26_StartupRaces ==
  [][/\ PostEarly =>
          /\ res'.status = 500
          /\ res'.body.error = "Failed to start sentiment analysis"
          /\ instances' = instances
     /\ GetSentimentEarly =>
          \/ req' = NoRequest /\ res' = GetFailed
          \/ req'.method = "GET queued" /\ res' = res
     /\ req.method = "GET queued" =>
          \/ req' = req /\ res' = res
          \/ /\ redisReady
             /\ req'.method = "GET"
             /\ req'.productUUID = req.productUUID
             /\ (req'.score.t = "null") = ((Str_score \o req.productUUID) \notin DOMAIN redis)
     /\ (GetSentimentRespond /\ req.score.t = "null") => res'.status = 404
     /\ (GetSentimentRespond /\ req.score.t # "null") => res'.status = 200
     /\ redis' = redis]_vars

\* C26 witness: before either initialisation finished a POST for "TV" was
\* answered 500 with no instance started, and a GET waits for the connection.
C26_Witness ==
  /\ ~temporalClient
  /\ ~redisReady
  /\ res.status = 500
  /\ res.body.error = "Failed to start sentiment analysis"
  /\ instances = <<>>
  /\ req.method = "GET queued"

\* C26 as stated: a POST with a non-empty productName handled before
\* initTemporalClient() has finished is answered 500 and starts no instance,
\* and a GET handled before the store connection is established is answered
\* 500; no request is left unanswered and the store is not changed.
C26_EarlyRequestsAnswered500 ==
  [][/\ PostEarly => res'.status = 500 /\ instances' = instances
     /\ GetSentimentEarly => req' = NoRequest /\ res'.status = 500
     /\ redis' = redis]_vars

====
